---- MODULE Spec2Model ----
(***************************************************************************)
(* Model of run.py: the rolling-mean signal job.  One run of main() walks  *)
(* through its checks in program order; pc is the position in main(), and  *)
(* the files the run reads and writes are part of the state.               *)
(***************************************************************************)
EXTENDS Integers, Sequences, FiniteSets, TLC

(* ------------------------------ bounds --------------------------------- *)
MaxRows == 3
MaxClose == 2
MaxLatency == 1

(* ------------------------- YAML / Python values ------------------------ *)
\* A value as yaml.safe_load returns it: its Python type t, its numeric
\* value v (True is 1, False is 0) and, for a string, its text s.
IntV(n) == [t |-> "int", v |-> n, s |-> ""]
BoolV(b) == [t |-> "bool", v |-> b, s |-> ""]
FloatV(n) == [t |-> "float", v |-> n, s |-> ""]
StrV(x) == [t |-> "str", v |-> 0, s |-> x]
NullV == [t |-> "NoneType", v |-> 0, s |-> ""]
DateV(x) == [t |-> "date", v |-> 0, s |-> x]
NoVal == [t |-> "unset", v |-> 0, s |-> ""]

\* isinstance(x, int): bool is a subclass of int in Python.
IsInstanceInt(x) == x.t \in {"int", "bool"}

\* type(x).__name__
TypeName(x) == x.t

\* Decimal text of the small integers the model uses.
IntText(n) ==
    IF n < 0 THEN "-" \o <<"0", "1", "2", "3", "4", "5", "6", "7", "8", "9">>[(0 - n) + 1]
    ELSE <<"0", "1", "2", "3", "4", "5", "6", "7", "8", "9">>[n + 1]

\* repr(x), used by the window message ({window!r}).
Repr(x) ==
    CASE x.t = "int" -> IntText(x.v)
      [] x.t = "bool" -> (IF x.v = 1 THEN "True" ELSE "False")
      [] x.t = "float" -> IntText(x.v) \o ".0"
      [] x.t = "str" -> "'" \o x.s \o "'"
      [] OTHER -> "None"

(* ------------------------------ config file ---------------------------- *)
required_keys == {"seed", "window", "version"}

SeedValues == {IntV(0 - 1), IntV(7), BoolV(1), FloatV(7), StrV("7"), NullV}
WindowValues ==
    {IntV(n) : n \in (0 - 1)..(MaxRows + 1)} \cup
    {BoolV(1), BoolV(0), FloatV(2), StrV("3")}
VersionValues == {StrV("v1"), StrV("v2"), DateV("2024-01-01")}

ValuesOf(k) ==
    CASE k = "seed" -> SeedValues
      [] k = "window" -> WindowValues
      [] OTHER -> VersionValues

\* Every mapping over a subset of the required keys, and one with an
\* unrecognized key besides the three.
Mappings ==
    UNION {{m \in [K -> SeedValues \cup WindowValues \cup VersionValues] :
                \A k \in K : m[k] \in ValuesOf(k)} : K \in SUBSET required_keys}
ExtraMapping ==
    [k \in required_keys \cup {"note"} |->
        CASE k = "seed" -> IntV(7)
          [] k = "window" -> IntV(2)
          [] k = "version" -> StrV("v2")
          [] OTHER -> StrV("x")]

\* What yaml.safe_load returned: a mapping, None (empty document), a
\* scalar or a list.  v holds a number's or a boolean's value (True is 1),
\* items a list's elements or a string's characters, m a mapping.
NoMap == [k \in {} |-> NoVal]
MapDoc(m) == [kind |-> "map", v |-> 0, items |-> <<>>, m |-> m]
NullDoc == [kind |-> "null", v |-> 0, items |-> <<>>, m |-> NoMap]
NumDoc(n) == [kind |-> "int", v |-> n, items |-> <<>>, m |-> NoMap]
BoolDoc(b) == [kind |-> "bool", v |-> b, items |-> <<>>, m |-> NoMap]
StrDoc == [kind |-> "str", v |-> 0, items |-> <<"s", "e", "e", "d">>, m |-> NoMap]
ListDoc(xs) == [kind |-> "list", v |-> 0, items |-> xs, m |-> NoMap]

ParsedDocs ==
    {MapDoc(m) : m \in Mappings \cup {ExtraMapping}} \cup
    {NullDoc, NumDoc(0), NumDoc(42), BoolDoc(0), BoolDoc(1), StrDoc,
     ListDoc(<<>>), ListDoc(<<"seed">>),
     ListDoc(<<"window", "seed", "version">>)}

\* The config path: no file, a path that exists but cannot be opened as a
\* file (a directory), text that is not YAML, or a YAML document.
ConfigFiles ==
    {[state |-> st, doc |-> NullDoc] : st \in {"absent", "unreadable", "badyaml"}} \cup
    {[state |-> "yaml", doc |-> d] : d \in ParsedDocs}

(* ------------------------------ input file ----------------------------- *)
RECURSIVE SeqsOfLen(_, _)
SeqsOfLen(S, n) ==
    IF n = 0 THEN {<<>>}
    ELSE {Append(q, x) : q \in SeqsOfLen(S, n - 1), x \in S}

\* A cell of a numeric column: a number, or NaN where the file has a blank
\* or NA cell.
Num(k) == [def |-> TRUE, val |-> k]
Absent == [def |-> FALSE, val |-> 0]

CloseCells == {Num(k) : k \in 1..MaxClose} \cup {Absent}
CloseSeries == UNION {SeqsOfLen(CloseCells, n) : n \in 0..MaxRows}

\* A signal column the file itself brings: 1 in every row.
Ones(n) == [i \in 1..n |-> Num(1)]

\* A parsed table: its column names in file order, its row count, the
\* dtype pandas gave the close column, the close cells (numeric columns
\* only) and the cells of the file's own signal column, if it has one.
\* fp tells how the binary64 running sums of the closes behave.  "exact":
\* every sum and quotient is exact, as for the integers the cells show.
\* "down" ("up"): the closes are non-integral doubles, the cells showing
\* them in a unit far above their rounding error, and from the second row
\* on the computed mean lies one rounding error below (above) the exact
\* mean.  Which of the two a file gives depends on the low bits of its
\* values, and for window 1 on whether the pandas build returns a run of
\* equal values unchanged.
Tables ==
    {[cols |-> <<"close">>, n |-> Len(q), dtype |-> "float64", close |-> q,
      fp |-> f, presignal |-> <<>>] :
        q \in CloseSeries, f \in {"exact", "down", "up"}} \cup
    {[cols |-> <<"open", "close">>, n |-> Len(q), dtype |-> "float64", close |-> q,
      fp |-> "exact", presignal |-> <<>>] : q \in CloseSeries} \cup
    {[cols |-> <<"close", "signal">>, n |-> Len(q), dtype |-> "float64", close |-> q,
      fp |-> "exact", presignal |-> Ones(Len(q))] : q \in CloseSeries} \cup
    {[cols |-> <<"close">>, n |-> k, dtype |-> "object", close |-> <<>>,
      fp |-> "exact", presignal |-> <<>>] : k \in 1..MaxRows} \cup
    {[cols |-> <<"open", "high">>, n |-> k, dtype |-> "none", close |-> <<>>,
      fp |-> "exact", presignal |-> <<>>] : k \in 0..MaxRows}

NoTable ==
    [cols |-> <<>>, n |-> 0, dtype |-> "none", close |-> <<>>,
     fp |-> "exact", presignal |-> <<>>]

\* The input path: no file, a file read_csv cannot parse (no columns, a
\* directory), or a table.
InputFiles ==
    {[state |-> st, table |-> NoTable] : st \in {"absent", "unparsable"}} \cup
    {[state |-> "csv", table |-> tb] : tb \in Tables}

(* --------------------------- sorted(missing) --------------------------- *)
\* Code points of the characters of the strings that can be keys.
Chars(k) ==
    CASE k = "seed" -> <<115, 101, 101, 100>>
      [] k = "window" -> <<119, 105, 110, 100, 111, 119>>
      [] k = "version" -> <<118, 101, 114, 115, 105, 111, 110>>
      [] k = "note" -> <<110, 111, 116, 101>>
      [] k = "s" -> <<115>>
      [] k = "e" -> <<101>>
      [] OTHER -> <<100>>

\* Python's str <: the first differing character decides, a proper prefix
\* is smaller.
RECURSIVE LexLess(_, _)
LexLess(a, b) ==
    IF b = <<>> THEN FALSE
    ELSE IF a = <<>> THEN TRUE
    ELSE IF Head(a) # Head(b) THEN Head(a) < Head(b)
    ELSE LexLess(Tail(a), Tail(b))

StrLess(x, y) == LexLess(Chars(x), Chars(y))

\* Mutant of Sorted: the elements in descending order.
RECURSIVE SortedDescending(_)
SortedDescending(S) ==
    IF S = {} THEN <<>>
    ELSE LET most == CHOOSE x \in S : \A y \in S \ {x} : StrLess(y, x)
         IN <<most>> \o SortedDescending(S \ {most})

\* sorted(S) for a set of strings: repeatedly take the least element.
RECURSIVE Sorted(_)
Sorted(S) ==
    IF S = {} THEN <<>>
    ELSE LET least == CHOOSE x \in S : \A y \in S \ {x} : StrLess(x, y)
         IN <<least>> \o Sorted(S \ {least})

\* bool(config): None, 0, False and the empty string, list and mapping are
\* falsy.
Truthy(doc) ==
    CASE doc.kind = "map" -> DOMAIN doc.m # {}
      [] doc.kind \in {"list", "str"} -> doc.items # <<>>
      [] doc.kind \in {"int", "bool"} -> doc.v # 0
      [] OTHER -> FALSE

\* set(x) raises TypeError for a number or a boolean.
NotIterable(doc) == doc.kind \in {"int", "bool"}

\* set(config or {}) raises iff config is truthy and not iterable.
KeySetRaises(doc) == Truthy(doc) /\ NotIterable(doc)

\* set(config or {}): the keys of a mapping, the elements of a list, the
\* characters of a string; a falsy config gives the empty set.
Range(q) == {q[i] : i \in 1..Len(q)}
KeySet(doc) ==
    IF ~Truthy(doc) THEN {}
    ELSE CASE doc.kind = "map" -> DOMAIN doc.m
           [] doc.kind \in {"list", "str"} -> Range(doc.items)
           [] OTHER -> {}

\* required_keys - set(config or {})
Missing(doc) == required_keys \ KeySet(doc)

(* ------------------------- rolling mean and signal --------------------- *)
\* A rolling mean: NaN, or the exact mean num/den together with the sign
\* err of (computed mean - exact mean).
NaN == [def |-> FALSE, num |-> 0, den |-> 1, err |-> 0]
Mean(sum, nobs, err) == [def |-> TRUE, num |-> sum, den |-> nobs, err |-> err]

\* The rounding of the mean computed at row i.
RoundingAt(fp, i) ==
    IF fp = "exact" \/ i = 1 THEN 0
    ELSE IF fp = "down" THEN 0 - 1 ELSE 1

\* Series.rolling(window=w).mean() with the default min_periods = w: a
\* running sum and a count of observations; each row that is not NaN is
\* added, the row leaving the window is removed if it is not NaN, and the
\* result is sum/nobs once nobs reaches w, NaN before.
RECURSIVE RollFrom(_, _, _, _, _, _)
RollFrom(close, w, fp, i, sum, nobs) ==
    IF i > Len(close) THEN <<>>
    ELSE LET s1 == IF close[i].def THEN sum + close[i].val ELSE sum
             n1 == IF close[i].def THEN nobs + 1 ELSE nobs
             leaves == i > w /\ close[i - w].def
             s2 == IF leaves THEN s1 - close[i - w].val ELSE s1
             n2 == IF leaves THEN n1 - 1 ELSE n1
             out == IF n2 >= w /\ n2 > 0 THEN Mean(s2, n2, RoundingAt(fp, i)) ELSE NaN
         IN <<out>> \o RollFrom(close, w, fp, i + 1, s2, n2)

RollingMean(tb, w) == RollFrom(tb.close, w, tb.fp, 1, 0, 0)

\* close > rolling_mean on the doubles: the exact values decide, and on an
\* exact tie the close is above a mean that was rounded down.
GreaterThan(c, mean) ==
    \/ c.val * mean.den > mean.num
    \/ c.val * mean.den = mean.num /\ mean.err < 0

\* valid_mask = rolling_mean.notna(); df.loc[valid_mask, "signal"] = ...
\* sets int(close > rolling_mean) on the valid rows only: every other row
\* keeps what the file's signal column held, or NaN in a column created
\* by the assignment.
SignalCell(c, mean, old) ==
    IF mean.def THEN Num(IF GreaterThan(c, mean) THEN 1 ELSE 0)
    ELSE old
SignalColumn(tb, rm) ==
    [i \in 1..tb.n |->
        SignalCell(tb.close[i], rm[i],
                   IF tb.presignal = <<>> THEN Absent ELSE tb.presignal[i])]

\* The rows of valid_mask and the sum of the signal over them.
ValidRows(rm) == {i \in 1..Len(rm) : rm[i].def}
RECURSIVE SumVals(_, _, _)
SumVals(col, rm, i) ==
    IF i = 0 THEN 0
    ELSE (IF rm[i].def /\ col[i].def THEN col[i].val ELSE 0) + SumVals(col, rm, i - 1)

\* float(df.loc[valid_mask, "signal"].mean()): NaN over no rows.
SignalRate(col, rm) ==
    LET cnt == Cardinality(ValidRows(rm))
    IN IF cnt = 0 THEN [nan |-> TRUE, num |-> 0, den |-> 1]
       ELSE [nan |-> FALSE, num |-> SumVals(col, rm, Len(col)), den |-> cnt]

\* The sign of float(num/den) - num/den for 0 <= num/den <= 1: the binary
\* expansion of the quotient is produced bit by bit (rem is the remainder,
\* bits the count of significant bits so far, odd the last bit) and
\* rounded to the 53 significant bits of a double, ties to even.
RECURSIVE DoubleErrorFrom(_, _, _, _)
DoubleErrorFrom(rem, den, bits, odd) ==
    IF rem = 0 THEN 0
    ELSE IF bits = 53
    THEN (IF 2 * rem > den THEN 1
          ELSE IF 2 * rem < den THEN 0 - 1
          ELSE IF odd THEN 1 ELSE 0 - 1)
    ELSE LET bit == 2 * rem >= den
             rem2 == IF bit THEN 2 * rem - den ELSE 2 * rem
         IN IF bits = 0 /\ ~bit THEN DoubleErrorFrom(rem2, den, 0, FALSE)
            ELSE DoubleErrorFrom(rem2, den, bits + 1, bit)

DoubleError(num, den) == DoubleErrorFrom(num % den, den, 0, FALSE)

\* round(x, 4) in ten-thousandths, x the double nearest num/den: round()
\* rounds the exact value of the double, ties to even, so a quotient that
\* is a decimal tie goes the way its double lies off it, and ties to even
\* only when the double is the tie itself.  round(nan, 4) is nan.
Round4(r) ==
    IF r.nan THEN [nan |-> TRUE, e4 |-> 0]
    ELSE LET scaled == r.num * 10000
             q == scaled \div r.den
             rem2 == 2 * (scaled % r.den)
             err == DoubleError(r.num, r.den)
             up == \/ rem2 > r.den
                   \/ rem2 = r.den /\ (err > 0 \/ (err = 0 /\ q % 2 = 1))
         IN [nan |-> FALSE, e4 |-> IF up THEN q + 1 ELSE q]

(* ------------------------------ documents ------------------------------ *)
Msg(text, args) == [text |-> text, args |-> args]

ErrorPayload(ver, msg) ==
    [version |-> ver, status |-> "error", error_message |-> msg]

SuccessPayload(ver, rows, rate, lat, sd) ==
    [version |-> ver, rows_processed |-> rows, metric |-> "signal_rate",
     value |-> Round4(rate), latency_ms |-> lat, seed |-> sd, status |-> "success"]

\* json can serialise the payload: every field is a string or a number
\* but version, which is whatever YAML gave; a date is not serialisable.
Serialisable(payload) == payload.version.t # "date"

\* What json.dump had written when it met the value of version, the first
\* key of both payloads.
Fragment == [fragment |-> "{ \"version\": "]

\* open(output_path, "w") truncates and json.dump streams into the file:
\* the file holds the payload alone, or, when json.dump raises TypeError
\* on the way, the text written up to there.  The output path is taken to
\* be one open() can create.
write_metrics(file, payload) ==
    IF Serialisable(payload) THEN <<payload>> ELSE <<Fragment>>

\* A document an earlier job left at the output path.
StaleDoc == ErrorPayload(StrV("v0"), Msg("Input CSV is empty", <<>>))

(* -------------------------------- state -------------------------------- *)
VARIABLES
    cfgFile,       \* the file at --config
    inFile,        \* the file at --input
    outFile,       \* the documents held by the file at --output
    stdout,        \* the documents this run printed
    pc,            \* position in main()
    config,        \* result of yaml.safe_load
    seed, window, version,
    df,            \* the loaded table
    rolling_mean,  \* df["rolling_mean"]
    signal,        \* df["signal"]
    rng,           \* the seeds np.random.seed accepted, in order
    exitCode,      \* the process exit status, -1 while running
    raised,        \* the uncaught exception that ended the run, or ""
    trace,         \* the steps of main() executed so far
    rerun,         \* TRUE in the second run over the same files
    prev           \* what the first run left behind

vars == <<cfgFile, inFile, outFile, stdout, pc, config, seed, window, version,
          df, rolling_mean, signal, rng, exitCode, raised, trace, rerun, prev>>

files == <<cfgFile, inFile>>
locals == <<config, seed, window, version, df, rolling_mean, signal, rng>>

NoPrev == [file |-> <<>>, out |-> <<>>, code |-> 0 - 1]

Init ==
    /\ cfgFile \in ConfigFiles
    /\ inFile \in InputFiles
    /\ outFile \in {<<>>, <<StaleDoc>>}
    /\ stdout = <<>>
    /\ pc = "config_exists"
    /\ config = NullDoc
    /\ seed = NoVal
    /\ window = NoVal
    /\ version = StrV("v1")
    /\ df = NoTable
    /\ rolling_mean = <<>>
    /\ signal = <<>>
    /\ rng = <<>>
    /\ exitCode = 0 - 1
    /\ raised = ""
    /\ trace = <<>>
    /\ rerun = FALSE
    /\ prev = NoPrev

(* ------------------------------ ways to end ---------------------------- *)
\* logger.error(msg); write_error(output, version, msg); sys.exit(1).
\* When write_metrics raises, print is not reached and the TypeError ends
\* the run.
Fail(step, msg) ==
    /\ outFile' = write_metrics(outFile, ErrorPayload(version, msg))
    /\ IF Serialisable(ErrorPayload(version, msg))
       THEN stdout' = Append(stdout, ErrorPayload(version, msg)) /\ raised' = raised
       ELSE stdout' = stdout /\ raised' = "TypeError"
    /\ exitCode' = 1
    /\ pc' = "done"
    /\ trace' = Append(trace, step)
    /\ UNCHANGED <<files, locals, rerun, prev>>

\* An exception nothing catches: traceback, exit status 1, no document.
Crash(step, exc) ==
    /\ raised' = exc
    /\ exitCode' = 1
    /\ pc' = "done"
    /\ trace' = Append(trace, step)
    /\ UNCHANGED <<files, locals, outFile, stdout, rerun, prev>>

\* The step passed: on to the next one.
Goto(step, next) ==
    /\ pc' = next
    /\ trace' = Append(trace, step)
    /\ UNCHANGED <<files, outFile, stdout, exitCode, raised, rerun, prev>>

(* ------------------------------- main() -------------------------------- *)
\* config_path.exists()
ConfigExists ==
    /\ pc = "config_exists"
    /\ IF cfgFile.state = "absent"
       THEN Fail("config_exists", Msg("Config file not found", <<>>))
       ELSE Goto("config_exists", "config_parse") /\ UNCHANGED locals

\* open(config_path) and yaml.safe_load: only yaml.YAMLError is caught.
ConfigParse ==
    /\ pc = "config_parse"
    /\ CASE cfgFile.state = "unreadable" -> Crash("config_parse", "OSError")
         [] cfgFile.state = "badyaml" ->
                Fail("config_parse", Msg("Failed to parse config YAML", <<>>))
         [] OTHER ->
                /\ config' = cfgFile.doc
                /\ Goto("config_parse", "required_keys")
                /\ UNCHANGED <<seed, window, version, df, rolling_mean, signal, rng>>

\* missing = required_keys - set(config or {}); set() of a truthy number
\* or boolean raises TypeError.
RequiredKeys ==
    /\ pc = "required_keys"
    /\ IF KeySetRaises(config)
       THEN Crash("required_keys", "TypeError")
       ELSE IF Missing(config) # {}
       THEN Fail("required_keys",
                 Msg("Config missing required fields", Sorted(Missing(config))))
       ELSE Goto("required_keys", "read_fields") /\ UNCHANGED locals

\* Mutant of ReadFields: version keeps its default.
ReadFieldsKeepDefaultVersion ==
    /\ pc = "read_fields"
    /\ IF config.kind # "map"
       THEN Crash("read_fields", "TypeError")
       ELSE /\ seed' = config.m["seed"]
            /\ window' = config.m["window"]
            /\ Goto("read_fields", "check_seed")
            /\ UNCHANGED <<config, version, df, rolling_mean, signal, rng>>

\* seed = config["seed"]; window = config["window"]; version =
\* config["version"]: a list cannot be indexed by a string.
ReadFields ==
    /\ pc = "read_fields"
    /\ IF config.kind # "map"
       THEN Crash("read_fields", "TypeError")
       ELSE /\ seed' = config.m["seed"]
            /\ window' = config.m["window"]
            /\ version' = config.m["version"]
            /\ Goto("read_fields", "check_seed")
            /\ UNCHANGED <<config, df, rolling_mean, signal, rng>>

\* if not isinstance(seed, int)
CheckSeed ==
    /\ pc = "check_seed"
    /\ IF ~IsInstanceInt(seed)
       THEN Fail("check_seed", Msg("'seed' must be an integer, got", <<TypeName(seed)>>))
       ELSE Goto("check_seed", "check_window") /\ UNCHANGED locals

\* if not isinstance(window, int) or window < 1
CheckWindow ==
    /\ pc = "check_window"
    /\ IF ~IsInstanceInt(window) \/ window.v < 1
       THEN Fail("check_window",
                 Msg("'window' must be a positive integer, got", <<Repr(window)>>))
       ELSE Goto("check_window", "seed_rng") /\ UNCHANGED locals

\* np.random.seed(seed): ValueError unless 0 <= seed <= 2**32 - 1.
SeedRng ==
    /\ pc = "seed_rng"
    /\ IF seed.v < 0 \/ seed.v \div 2 ^ 16 >= 2 ^ 16
       THEN Crash("seed_rng", "ValueError")
       ELSE /\ rng' = Append(rng, seed.v)
            /\ Goto("seed_rng", "input_exists")
            /\ UNCHANGED <<config, seed, window, version, df, rolling_mean, signal>>

\* input_path.exists()
InputExists ==
    /\ pc = "input_exists"
    /\ IF inFile.state = "absent"
       THEN Fail("input_exists", Msg("Input file not found", <<>>))
       ELSE Goto("input_exists", "read_csv") /\ UNCHANGED locals

\* pd.read_csv(input_path): every Exception is caught.
ReadCsv ==
    /\ pc = "read_csv"
    /\ IF inFile.state = "unparsable"
       THEN Fail("read_csv", Msg("Failed to read CSV", <<>>))
       ELSE /\ df' = inFile.table
            /\ Goto("read_csv", "check_empty")
            /\ UNCHANGED <<config, seed, window, version, rolling_mean, signal, rng>>

\* if df.empty
CheckEmpty ==
    /\ pc = "check_empty"
    /\ IF df.n = 0
       THEN Fail("check_empty", Msg("Input CSV is empty", <<>>))
       ELSE Goto("check_empty", "check_close") /\ UNCHANGED locals

\* if "close" not in df.columns
CheckClose ==
    /\ pc = "check_close"
    /\ IF "close" \notin Range(df.cols)
       THEN Fail("check_close",
                 Msg("Required column 'close' not found. Columns present", df.cols))
       ELSE Goto("check_close", "rolling_mean") /\ UNCHANGED locals

\* df["rolling_mean"] = df["close"].rolling(window=window).mean(): pandas
\* refuses a bool window (ValueError) and a non-numeric column (DataError).
ComputeRollingMean ==
    /\ pc = "rolling_mean"
    /\ CASE window.t = "bool" -> Crash("rolling_mean", "ValueError")
         [] df.dtype = "object" -> Crash("rolling_mean", "DataError")
         [] OTHER ->
                /\ rolling_mean' = RollingMean(df, window.v)
                /\ Goto("rolling_mean", "signal")
                /\ UNCHANGED <<config, seed, window, version, df, signal, rng>>

\* df.loc[valid_mask, "signal"] = (close > rolling_mean).astype(int)
ComputeSignal ==
    /\ pc = "signal"
    /\ signal' = SignalColumn(df, rolling_mean)
    /\ Goto("signal", "report")
    /\ UNCHANGED <<config, seed, window, version, df, rolling_mean, rng>>

\* rows_processed, signal_rate, latency_ms, metrics; write_metrics; print;
\* sys.exit(0).  When write_metrics raises, nothing is printed and the
\* TypeError ends the run with status 1.
Report ==
    /\ pc = "report"
    /\ \E latency_ms \in 0..MaxLatency :
         LET metrics == SuccessPayload(version, df.n, SignalRate(signal, rolling_mean),
                                       latency_ms, seed)
         IN /\ outFile' = write_metrics(outFile, metrics)
            /\ IF Serialisable(metrics)
               THEN stdout' = Append(stdout, metrics) /\ raised' = raised
                    /\ exitCode' = 0
               ELSE stdout' = stdout /\ raised' = "TypeError"
                    /\ exitCode' = 1
    /\ pc' = "done"
    /\ trace' = Append(trace, "report")
    /\ UNCHANGED <<files, locals, rerun, prev>>

\* The job is started once more on the same config and input; whatever was
\* at the output path may have been removed or replaced in between.
Rerun ==
    /\ pc = "done"
    /\ ~rerun
    /\ rerun' = TRUE
    /\ prev' = [file |-> outFile, out |-> stdout, code |-> exitCode]
    /\ outFile' \in {outFile, <<>>, <<StaleDoc>>}
    /\ stdout' = <<>>
    /\ pc' = "config_exists"
    /\ config' = NullDoc
    /\ seed' = NoVal
    /\ window' = NoVal
    /\ version' = StrV("v1")
    /\ df' = NoTable
    /\ rolling_mean' = <<>>
    /\ signal' = <<>>
    /\ rng' = <<>>
    /\ exitCode' = 0 - 1
    /\ raised' = ""
    /\ trace' = <<>>
    /\ UNCHANGED files

Next ==
    \/ ConfigExists
    \/ ConfigParse
    \/ RequiredKeys
    \/ ReadFields
    \/ CheckSeed
    \/ CheckWindow
    \/ SeedRng
    \/ InputExists
    \/ ReadCsv
    \/ CheckEmpty
    \/ CheckClose
    \/ ComputeRollingMean
    \/ ComputeSignal
    \/ Report

Spec == Init /\ [][Next]_vars

NextRerun == Next \/ Rerun

SpecRerun == Init /\ [][NextRerun]_vars

(* ------------------------ vocabulary of the claims --------------------- *)
StageOrder ==
    <<"config_exists", "config_parse", "required_keys", "read_fields",
      "check_seed", "check_window", "seed_rng", "input_exists", "read_csv",
      "check_empty", "check_close", "rolling_mean", "signal", "report">>

Done == pc = "done"
Ran(step) == step \in Range(trace)
LastStep == trace[Len(trace)]

\* The run has written an error (a success) document.
WroteError == \E i \in 1..Len(stdout) : stdout[i].status = "error"
WroteSuccess == \E i \in 1..Len(stdout) : stdout[i].status = "success"

\* The config file is a YAML mapping (or the empty document).
IsMappingConfig == cfgFile.state = "yaml" /\ cfgFile.doc.kind \in {"map", "null"}
HasAllKeys == cfgFile.state = "yaml" /\ cfgFile.doc.kind = "map"
              /\ required_keys \subseteq DOMAIN cfgFile.doc.m
CfgSeed == cfgFile.doc.m["seed"]
CfgWindow == cfgFile.doc.m["window"]
CfgVersion == cfgFile.doc.m["version"]

\* A valid config as the configuration document is specified: seed an
\* integer, window an integer >= 1.
ValidConfig ==
    /\ HasAllKeys
    /\ CfgSeed.t = "int"
    /\ CfgWindow.t = "int" /\ CfgWindow.v >= 1

\* The input is a table with rows and a numeric close column.
HasCloses ==
    /\ inFile.state = "csv"
    /\ "close" \in Range(inFile.table.cols)
    /\ inFile.table.dtype = "float64"
    /\ inFile.table.n >= 1

RECURSIVE WindowSum(_, _, _)
WindowSum(close, from, to) ==
    IF from > to THEN 0 ELSE close[to].val + WindowSum(close, from, to - 1)

\* The file brings no signal column of its own.
NoSignalColumn == inFile.table.presignal = <<>>
\* Every running sum of the closes is exact.
ExactSums == inFile.table.fp = "exact"

\* A document without its latency.
NoLatency(d) ==
    IF "latency_ms" \in DOMAIN d THEN [d EXCEPT !.latency_ms = 0] ELSE d
NoLatencies(ds) == [i \in 1..Len(ds) |-> NoLatency(ds[i])]

(* --------------------------------- C1 ---------------------------------- *)
\* C1: a run terminates only after exactly one metrics document has been
\* written to the output path and echoed to standard output, and it exits
\* with 0 iff that document has status "success".
C1_DocumentBeforeExit ==
    Done =>
        /\ Len(stdout) = 1
        /\ outFile = stdout
        /\ (exitCode = 0 <=> stdout[1].status = "success")
        /\ (exitCode # 0 <=> stdout[1].status = "error")

(* --------------------------------- C2 ---------------------------------- *)
\* C2: with a valid config and a non-empty series shorter than the window,
\* the run ends with an error document and a non-zero exit code, and never
\* writes a success document with an undefined rate.  Stated for the runs
\* that raise no exception.
C2_ShortSeriesIsError ==
    (Done /\ raised = "" /\ ValidConfig /\ HasCloses
          /\ inFile.table.n < CfgWindow.v) =>
        /\ exitCode # 0
        /\ Len(stdout) = 1 /\ stdout[1].status = "error"
        /\ outFile = stdout

(* --------------------------------- C3 ---------------------------------- *)
\* C3: after the signal step, rolling_mean[i] and signal[i] are defined
\* exactly for the rows i >= w (1-based), rolling_mean[i] is the mean of
\* the w closes ending at i, and signal[i] = 1 iff w * close[i] exceeds
\* their sum, a tie giving 0; on the rows before both are absent.  Stated
\* for the series of at least w rows whose sums are exact, in a file
\* that brings no signal column of its own.
C3_RollingMeanAndSignal ==
    (Ran("signal") /\ NoSignalColumn /\ ExactSums /\ inFile.table.n >= window.v) =>
        LET w == window.v
            close == inFile.table.close
        IN /\ Len(rolling_mean) = Len(close)
           /\ Len(signal) = Len(close)
           /\ \A i \in 1..Len(close) :
                IF i >= w
                THEN LET total == WindowSum(close, i - w + 1, i)
                     IN /\ rolling_mean[i].def
                        /\ rolling_mean[i].den > 0
                        /\ rolling_mean[i].num * w = total * rolling_mean[i].den
                        /\ signal[i].def
                        /\ signal[i].val = (IF w * close[i].val > total THEN 1 ELSE 0)
                ELSE ~rolling_mean[i].def /\ ~signal[i].def

(* --------------------------------- C4 ---------------------------------- *)
\* C4: a success payload over a series of n >= window rows reports
\* rows_processed = n, and its value is the count of rows with signal 1
\* over the count of rows with a signal (to 4 decimals), within [0, 1].
\* Stated for the tables that bring no signal column of their own.
C4_RowsAndRate ==
    (Done /\ exitCode = 0 /\ ValidConfig /\ NoSignalColumn
          /\ inFile.table.n >= window.v) =>
        LET d == stdout[1]
            ones == Cardinality({i \in 1..Len(signal) : signal[i].def /\ signal[i].val = 1})
            defined == Cardinality({i \in 1..Len(signal) : signal[i].def})
        IN /\ d.status = "success"
           /\ d.rows_processed = inFile.table.n
           /\ defined > 0
           /\ ~d.value.nan
           /\ 2 * (d.value.e4 * defined - 10000 * ones) <= defined
           /\ 2 * (10000 * ones - d.value.e4 * defined) <= defined
           /\ d.value.e4 >= 0 /\ d.value.e4 <= 10000

(* --------------------------------- C5 ---------------------------------- *)
\* check_window ran and was not the step that ended the run.
ConfigChecksPassed == \E i \in 1..(Len(trace) - 1) : trace[i] = "check_window"

\* C5: the generator is seeded at most once; exactly once, with the
\* configured seed, iff every config check passed; after the last config
\* check and before the input path is first touched.
C5_SeededOnceAfterValidation ==
    /\ Len(rng) <= 1
    /\ Len(rng) = 1 => (Ran("check_window") /\ rng[1] = CfgSeed.v)
    /\ Ran("input_exists") => Len(rng) = 1
    /\ Done => (Len(rng) = 1 <=> ConfigChecksPassed)

(* --------------------------------- C6 ---------------------------------- *)
WindowRejected ==
    /\ HasAllKeys
    /\ IsInstanceInt(CfgSeed)
    /\ (~IsInstanceInt(CfgWindow) \/ CfgWindow.v < 1)

\* C6: the steps run in the fixed order; a failed check ends the run with
\* exactly one error document and no success document, and nothing runs
\* after it: a rejected window leaves the input untouched, an empty table
\* is never searched for its column nor averaged.
C6_StrictOrderShortCircuit ==
    /\ Len(trace) <= Len(StageOrder)
    /\ \A i \in 1..Len(trace) : trace[i] = StageOrder[i]
    /\ WroteError =>
         /\ Done
         /\ Len(stdout) = 1
         /\ outFile = stdout
         /\ exitCode # 0
         /\ ~WroteSuccess
    /\ WindowRejected =>
         /\ ~Ran("seed_rng") /\ ~Ran("input_exists") /\ ~Ran("read_csv")
         /\ df = NoTable /\ rng = <<>>
         /\ Done => (WroteError /\ LastStep = "check_window")
    /\ (inFile.state = "csv" /\ inFile.table.n = 0) =>
         /\ ~Ran("check_close") /\ ~Ran("rolling_mean")
         /\ rolling_mean = <<>>

(* --------------------------------- C7 ---------------------------------- *)
ConfigSteps ==
    {"config_exists", "config_parse", "required_keys", "check_seed", "check_window"}
EarlyConfigSteps == {"config_exists", "config_parse", "required_keys"}
FieldCheckSteps == {"check_seed", "check_window"}
LaterSteps ==
    {"input_exists", "read_csv", "check_empty", "check_close", "rolling_mean",
     "signal", "report"}

\* C7 as stated: an error document carries "v1" when any config check
\* failed, and the configured version when a later step failed.
C7_VersionAsStated ==
    (Done /\ WroteError) =>
        /\ LastStep \in ConfigSteps => stdout[1].version = StrV("v1")
        /\ LastStep \in LaterSteps => stdout[1].version = CfgVersion

\* C7 amended: an error document carries "v1" when the config was not
\* found, did not parse or missed a field, and the configured version when
\* the seed or window check, or any later step, failed.
C7_VersionInErrorDocument ==
    (Done /\ WroteError) =>
        /\ LastStep \in EarlyConfigSteps => stdout[1].version = StrV("v1")
        /\ LastStep \in FieldCheckSteps \cup LaterSteps =>
               stdout[1].version = CfgVersion
        /\ outFile[1].version = stdout[1].version

\* The seed check failed under a config whose version is not the default.
C7_Witness ==
    /\ Done /\ WroteError
    /\ LastStep = "check_seed"
    /\ CfgVersion = StrV("v2")
    /\ stdout[1].version = StrV("v2")

(* --------------------------------- C8 ---------------------------------- *)
\* C8: only an integer seed and an integer window >= 1 pass validation;
\* any other seed ends in the seed error, any other window in the window
\* error, and neither writes a success document.  Stated for the runs
\* that raise no exception.
C8_OnlyIntegersPass ==
    /\ Ran("seed_rng") => ValidConfig
    /\ (Done /\ raised = "" /\ HasAllKeys /\ CfgSeed.t # "int") =>
         /\ Len(stdout) = 1
         /\ stdout[1].status = "error"
         /\ stdout[1].error_message.text = "'seed' must be an integer, got"
    /\ (Done /\ raised = "" /\ HasAllKeys /\ CfgSeed.t = "int"
             /\ (CfgWindow.t # "int" \/ CfgWindow.v < 1)) =>
         /\ Len(stdout) = 1
         /\ stdout[1].status = "error"
         /\ stdout[1].error_message.text = "'window' must be a positive integer, got"

(* --------------------------------- C9 ---------------------------------- *)
CfgMissing ==
    required_keys \ (IF cfgFile.doc.kind = "map" THEN DOMAIN cfgFile.doc.m ELSE {})
InSet(k) == k \in CfgMissing

\* C9: a parsed mapping that lacks a non-empty set M of required keys ends
\* in one error document listing exactly M in lexicographic order (seed <
\* version < window); the type checks and the input are not reached.
C9_MissingFieldsSorted ==
    (Done /\ IsMappingConfig /\ CfgMissing # {}) =>
        /\ Len(stdout) = 1
        /\ outFile = stdout
        /\ stdout[1].status = "error"
        /\ stdout[1].error_message.text = "Config missing required fields"
        /\ stdout[1].error_message.args =
               SelectSeq(<<"seed", "version", "window">>, InSet)
        /\ ~Ran("check_seed") /\ ~Ran("input_exists")
        /\ exitCode # 0

\* window and version missing: the message lists ['version', 'window'].
C9_Witness ==
    /\ Done
    /\ IsMappingConfig
    /\ CfgMissing = {"window", "version"}
    /\ stdout[1].error_message.args = <<"version", "window">>

(* --------------------------------- C10 --------------------------------- *)
\* C10: whatever was at the output path, the file ends up holding exactly
\* the document the run echoed, and a second run on the same config and
\* input leaves and echoes the same document but for latency_ms.
C10_DocumentIsFunctionOfInputs ==
    Done =>
        /\ outFile = stdout
        /\ rerun =>
             /\ NoLatencies(outFile) = NoLatencies(prev.file)
             /\ NoLatencies(stdout) = NoLatencies(prev.out)

====
